---------------------------- MODULE Spec2Model ----------------------------
(***************************************************************************)
(* Find_A_Job_Agent: the query parser, the Findwork listing client with    *)
(* its retry loop, the result formatter and the tool adapter of            *)
(* FAJA/findwork_agent.py, and the Streamlit conversation log of           *)
(* FAJA/faja.py.                                                           *)
(*                                                                         *)
(* A text is a sequence of one-character strings, so that the regular      *)
(* expressions and the substring test of the parser are computed on the    *)
(* characters.  Characters outside ASCII in the program's messages are     *)
(* written with an ASCII stand-in, e.g. "(x)" for the cross mark.          *)
(***************************************************************************)
EXTENDS Integers, Sequences, FiniteSets, TLC

VARIABLES
    pc,             \* position of the tool invocation (search_jobs_tool)
    input_text,     \* argument of search_jobs_tool: [type, val]
    parsed_input,   \* local of search_jobs_tool: the keyword arguments
    params,         \* local of FindJobs.search_jobs: the query parameters
    attempt,        \* loop variable of FindJobs.search_jobs
    inflight,       \* number of HTTP requests sent and not yet answered
    calls,          \* number of requests.get calls made by this invocation
    sleeps,         \* number of time.sleep(2) calls made by this invocation
    response,       \* the last HTTP response received
    job_results,    \* value returned by FindJobs.search_jobs
    formatted_jobs, \* local of search_jobs_tool: the rendered blocks
    tool_result,    \* value returned by search_jobs_tool
    log,            \* log lines emitted by this invocation
    user_input,     \* faja.py: content of the text area
    conversation,   \* faja.py: st.session_state.conversation
    screen          \* faja.py: what the last script run wrote for the press

vars == <<pc, input_text, parsed_input, params, attempt, inflight, calls,
          sleeps, response, job_results, formatted_jobs, tool_result, log,
          user_input, conversation, screen>>

toolVars == <<pc, input_text, parsed_input, params, attempt, inflight, calls,
              sleeps, response, job_results, formatted_jobs, tool_result, log>>

uiVars == <<user_input, conversation, screen>>

-----------------------------------------------------------------------------
(* Bounds of the model *)

\* longest input text, counted in fragments of the vocabulary below
MaxFrags == 3
\* longest results array of a response body
MaxResults == 6
\* largest page number of a parameter mapping handed to the tool
MaxPage == 2
\* number of "Search Jobs" presses followed in one session
MaxPresses == 3

-----------------------------------------------------------------------------
(* Characters and texts *)

UPPER == <<"A","B","C","D","E","F","G","H","I","J","K","L","M",
           "N","O","P","Q","R","S","T","U","V","W","X","Y","Z">>
LOWER == <<"a","b","c","d","e","f","g","h","i","j","k","l","m",
           "n","o","p","q","r","s","t","u","v","w","x","y","z">>
DIGITS == {"0","1","2","3","4","5","6","7","8","9"}

Range(s) == {s[i] : i \in DOMAIN s}

\* str.lower() on one character
LowerChar(c) ==
    IF \E i \in 1..26 : UPPER[i] = c
    THEN LOWER[CHOOSE i \in 1..26 : UPPER[i] = c]
    ELSE c

\* str.lower()
Lower(s) == [i \in 1..Len(s) |-> LowerChar(s[i])]

\* the class \w of the re module
IsWordChar(c) == c \in Range(UPPER) \cup Range(LOWER) \cup DIGITS \cup {"_"}

\* the class \d
IsDigit(c) == c \in DIGITS

\* the literal `lit` stands in s at position i
LitAt(s, i, lit) ==
    /\ i >= 1
    /\ i + Len(lit) - 1 <= Len(s)
    /\ \A k \in 1..Len(lit) : s[i + k - 1] = lit[k]

\* the `in` operator of str: lit is a substring of s
Contains(s, lit) == \E i \in 1..(Len(s) + 1) : LitAt(s, i, lit)

\* last index of the run of \w characters that starts at j (greedy \w+)
WordRunEnd(s, j) ==
    CHOOSE e \in j..Len(s) :
        /\ \A k \in j..e : IsWordChar(s[k])
        /\ (e = Len(s) \/ ~IsWordChar(s[e + 1]))

\* re.search(lit + r'(\w+)', s, re.IGNORECASE) for a lower-case literal lit:
\* the leftmost position where lit stands, in any letter case, followed by
\* at least one \w character; group(1) is the whole run of \w characters.
SearchWordAfter(lit, s) ==
    LET hits == {i \in 1..Len(s) :
                    /\ LitAt(Lower(s), i, lit)
                    /\ i + Len(lit) <= Len(s)
                    /\ IsWordChar(s[i + Len(lit)])}
    IN  IF hits = {}
        THEN [matched |-> FALSE, group |-> <<>>]
        ELSE LET i == CHOOSE h \in hits : \A g \in hits : h <= g
                 j == i + Len(lit)
             IN  [matched |-> TRUE, group |-> SubSeq(s, j, WordRunEnd(s, j))]

\* \b of the re module at the gap before position i
WordBoundary(s, i) ==
    LET before == i > 1 /\ i - 1 <= Len(s) /\ IsWordChar(s[i - 1])
        after  == i >= 1 /\ i <= Len(s) /\ IsWordChar(s[i])
    IN  before # after

OPEN_JOBS == <<" ","o","p","e","n"," ","j","o","b","s">>

\* re.search(r'\b(\d+) open jobs\b', s): case-sensitive
SearchOpenJobs(s) ==
    \E i \in 1..Len(s) : \E j \in i..Len(s) :
        /\ WordBoundary(s, i)
        /\ \A k \in i..j : IsDigit(s[k])
        /\ LitAt(s, j + 1, OPEN_JOBS)
        /\ WordBoundary(s, j + 1 + Len(OPEN_JOBS))

-----------------------------------------------------------------------------
(* Query parser *)

\* Python's None
None == <<"<None>">>

IN_ == <<"i","n"," ">>
FOR_A == <<"f","o","r"," ","a"," ">>
REMOTE == <<"r","e","m","o","t","e">>

DefaultQuery == [search |-> <<>>, location |-> None, sort_by |-> "date", page |-> 1]

\* the parser with the role rule applied after the remote rule
parse_user_input_roleLast(text) ==
    LET match_location == SearchWordAfter(IN_, text)
        match_role == SearchWordAfter(FOR_A, text)
        q0 == DefaultQuery
        q1 == IF match_location.matched
              THEN [q0 EXCEPT !.location = match_location.group] ELSE q0
        q2 == IF Contains(Lower(text), REMOTE)
              THEN [q1 EXCEPT !.search = REMOTE] ELSE q1
        q3 == IF match_role.matched
              THEN [q2 EXCEPT !.search = match_role.group] ELSE q2
        q4 == IF SearchOpenJobs(text) THEN [q3 EXCEPT !.page = 1] ELSE q3
    IN  q4

parse_user_input(text) ==
    LET match_location == SearchWordAfter(IN_, text)
        match_role == SearchWordAfter(FOR_A, text)
        q0 == DefaultQuery
        q1 == IF match_location.matched
              THEN [q0 EXCEPT !.location = match_location.group] ELSE q0
        q2 == IF match_role.matched
              THEN [q1 EXCEPT !.search = match_role.group] ELSE q1
        q3 == IF Contains(Lower(text), REMOTE)
              THEN [q2 EXCEPT !.search = REMOTE] ELSE q2
        q4 == IF SearchOpenJobs(text) THEN [q3 EXCEPT !.page = 1] ELSE q3
    IN  q4

-----------------------------------------------------------------------------
(* Input texts: concatenations of fragments *)

Fragments ==
    { FOR_A,
      IN_,
      REMOTE,
      <<"R","E","M","O","T","E">>,
      <<"R","e","m","o","t","e"," ">>,
      <<"d","e","v"," ">>,
      <<"A","u","s","t","i","n">>,
      <<"7"," ","o","p","e","n"," ","j","o","b","s">> }

RECURSIVE Cat(_)
Cat(fs) == IF fs = <<>> THEN <<>> ELSE Head(fs) \o Cat(Tail(fs))

Texts(n) == UNION {{Cat(fs) : fs \in [1..k -> Fragments]} : k \in 0..n}

\* Python values whose type the program inspects carry it in a tag
Str(s) == [type |-> "str", val |-> s]
Dict(m) == [type |-> "dict", val |-> m]
NoValue == [type |-> "NoneType"]

isinstance(x, t) == x.type = t

-----------------------------------------------------------------------------
(* Listing client: FindJobs.search_jobs *)

retries_plus_one == 3 + 1

retries == 3

Sentinel == [error |-> "Failed to fetch job listings after multiple attempts."]

\* search_jobs(**kwargs): a keyword that is not given takes the default of
\* the signature
Kw(kwargs, k, default) == IF k \in DOMAIN kwargs THEN kwargs[k] ELSE default

build_params(kwargs) ==
    [search   |-> Kw(kwargs, "search", <<>>),
     location |-> Kw(kwargs, "location", None),
     sort_by  |-> Kw(kwargs, "sort_by", "date"),
     page     |-> Kw(kwargs, "page", 1)]

\* what requests.get and raise_for_status raise
RequestsRaises == {"ConnectionError", "Timeout"}

\* the call of raise_for_status left out: no status raises
never_raises(status) == FALSE

\* response.raise_for_status(): raises HTTPError for a 4xx or 5xx status
raise_for_status(status) == status >= 400

\* an except clause that names the transport errors only
CaughtTransportOnly(exc) == exc \in {"ConnectionError", "Timeout"}

\* except requests.exceptions.RequestException
Caught(exc) == exc \in {"ConnectionError", "Timeout", "HTTPError"}

NoResponse == [status |-> 0]

-----------------------------------------------------------------------------
(* Result formatter and tool adapter: search_jobs_tool *)

LIMIT == 5

Min(a, b) == IF a < b THEN a ELSE b

\* the slice [:6]
first_six(rs) == SubSeq(rs, 1, Min(Len(rs), LIMIT + 1))

\* the slice job_results["results"][:5]
first_five(rs) == SubSeq(rs, 1, Min(Len(rs), LIMIT))

\* the test without the truthiness of the list
has_results_key_only(jr) == "results" \in DOMAIN jr

\* "results" in job_results and job_results["results"]
has_results(jr) == "results" \in DOMAIN jr /\ jr.results # <<>>

\* the f-string of one job, as the sequence of its pieces
render(job) ==
    << "(office) **", job.company_name, "** - ", job.role, "\n",
       "(pin) **Location:** ", job.location, "\n",
       "(globe) **Remote:** ", (IF job.remote THEN "Yes" ELSE "No"), "\n",
       "(calendar) **Posted:** ", job.date_posted, "\n",
       "(link) [View Job](", job.url, ")\n" >>

\* sep.join(blocks)
RECURSIVE join(_, _)
join(sep, blocks) ==
    IF blocks = <<>> THEN <<>>
    ELSE IF Len(blocks) = 1 THEN blocks[1]
    ELSE blocks[1] \o <<sep>> \o join(sep, Tail(blocks))

NO_JOBS == <<"(x) No job listings found. Try different keywords or location.">>

\* the list formatted_jobs built by the loop
format_jobs(jr) ==
    IF has_results(jr)
    THEN [i \in 1..Len(first_five(jr.results)) |-> render(first_five(jr.results)[i])]
    ELSE <<>>

\* a mapping input with the defaults of the signature merged in
dispatch_merge_defaults(input) ==
    IF isinstance(input, "str") THEN parse_user_input(input.val)
    ELSE build_params(input.val)

\* parse_user_input(input_text) if isinstance(input_text, str) else input_text
dispatch(input) ==
    IF isinstance(input, "str") THEN parse_user_input(input.val) ELSE input.val

-----------------------------------------------------------------------------
(* Inputs of the tool and bodies of the listing API *)

Job(c, r) ==
    [company_name |-> c, role |-> "Developer", location |-> "Austin",
     remote |-> r, date_posted |-> "2025-01-01", url |-> "https://findwork.dev/j"]

Jobs == {Job("Acme", TRUE), Job("Initech", FALSE)}

SeqsUpTo(S, n) == UNION {[1..k -> S] : k \in 0..n}

\* 2xx bodies: a results array of any length, or an object without the key
Bodies == {[results |-> rs] : rs \in SeqsUpTo(Jobs, MaxResults)}
            \cup {[detail |-> "ok"]}

ErrorBody == [detail |-> "error"]

DEV == <<"d","e","v">>
AUSTIN == <<"A","u","s","t","i","n">>

ToolTexts ==
    { <<>>,
      REMOTE,
      Cat(<<FOR_A, DEV, <<" ">>, IN_, AUSTIN>>),
      Cat(<<FOR_A, DEV, <<" ">>, <<"R","e","m","o","t","e">>>>),
      Cat(<<<<"7"," ","o","p","e","n"," ","j","o","b","s">>, <<" ">>, IN_, AUSTIN>>) }

SortKeys == {"date", "relevance", "salary"}

ToolMappings ==
    {[search |-> DEV, location |-> AUSTIN, sort_by |-> s, page |-> p] :
        s \in SortKeys, p \in 0..MaxPage}
      \cup {[search |-> DEV]}
      \cup {[page |-> p] : p \in 0..MaxPage}
      \cup {<<>>}

ToolInputs == {Str(t) : t \in ToolTexts} \cup {Dict(m) : m \in ToolMappings}

-----------------------------------------------------------------------------
(* One invocation of search_jobs_tool *)

Line(msg, arg) == [msg |-> msg, arg |-> arg]

InitTool ==
    /\ pc = "idle"
    /\ input_text = NoValue
    /\ parsed_input = <<>>
    /\ params = <<>>
    /\ attempt = 0
    /\ inflight = 0
    /\ calls = 0
    /\ sleeps = 0
    /\ response = NoResponse
    /\ job_results = <<>>
    /\ formatted_jobs = <<>>
    /\ tool_result = NoValue
    /\ log = <<>>

InitUI ==
    /\ user_input = <<>>
    /\ conversation = <<>>
    /\ screen = [out |-> "none"]

Init == InitTool /\ InitUI

\* search_jobs_tool is called: lines 102-106 up to the first loop test
ToolCall(input) ==
    /\ pc = "idle"
    /\ input_text' = input
    /\ parsed_input' = dispatch(input)
    /\ params' = build_params(parsed_input')
    /\ log' = IF isinstance(input, "str")
              THEN Append(log, Line("Parsed Query", parsed_input'))
              ELSE log
    /\ attempt' = 0
    /\ pc' = "loop"
    /\ UNCHANGED <<inflight, calls, sleeps, response, job_results,
                   formatted_jobs, tool_result>>
    /\ UNCHANGED uiVars

\* lines 49-52: the loop has an iteration left; the request goes out
SendRequest ==
    /\ pc = "loop"
    /\ attempt < retries
    /\ log' = Append(log, Line("Sending Findwork API request", params))
    /\ calls' = calls + 1
    /\ inflight' = inflight + 1
    /\ pc' = "waiting"
    /\ UNCHANGED <<input_text, parsed_input, params, attempt, sleeps, response,
                   job_results, formatted_jobs, tool_result>>
    /\ UNCHANGED uiVars

\* lines 60-62, or the exception leaves search_jobs and search_jobs_tool
Except(exc) ==
    IF Caught(exc)
    THEN /\ log' = Append(log, Line("Findwork API request failed", attempt + 1))
         /\ sleeps' = sleeps + 1
         /\ pc' = "sleeping"
    ELSE /\ pc' = "raised"
         /\ UNCHANGED <<log, sleeps>>

\* line 52: requests.get raises (no connection, or the 5 s timeout)
RequestRaises(exc) ==
    /\ pc = "waiting"
    /\ inflight' = inflight - 1
    /\ response' = NoResponse
    /\ Except(exc)
    /\ UNCHANGED <<input_text, parsed_input, params, attempt, calls,
                   job_results, formatted_jobs, tool_result>>
    /\ UNCHANGED uiVars

\* lines 52-59: a response arrives
ResponseArrives(status, body) ==
    /\ pc = "waiting"
    /\ inflight' = inflight - 1
    /\ response' = [status |-> status, json |-> body]
    /\ IF raise_for_status(status)
       THEN /\ Except("HTTPError")
            /\ UNCHANGED job_results
       ELSE /\ job_results' = body
            /\ log' = Append(log, Line("Findwork API Response", body))
            /\ pc' = "return"
            /\ UNCHANGED sleeps
    /\ UNCHANGED <<input_text, parsed_input, params, attempt, calls,
                   formatted_jobs, tool_result>>
    /\ UNCHANGED uiVars

\* line 62 returns: the backoff has elapsed, the loop goes to its next test
SleepDone ==
    /\ pc = "sleeping"
    /\ attempt' = attempt + 1
    /\ pc' = "loop"
    /\ UNCHANGED <<input_text, parsed_input, params, inflight, calls, sleeps,
                   response, job_results, formatted_jobs, tool_result, log>>
    /\ UNCHANGED uiVars

\* line 63: the loop is exhausted
ReturnSentinel ==
    /\ pc = "loop"
    /\ attempt >= retries
    /\ job_results' = Sentinel
    /\ pc' = "return"
    /\ UNCHANGED <<input_text, parsed_input, params, attempt, inflight, calls,
                   sleeps, response, formatted_jobs, tool_result, log>>
    /\ UNCHANGED uiVars

\* lines 108-121: search_jobs has returned; format and return
FormatResults ==
    /\ pc = "return"
    /\ formatted_jobs' = format_jobs(job_results)
    /\ tool_result' = IF has_results(job_results)
                      THEN Str(join("\n\n", formatted_jobs'))
                      ELSE Str(NO_JOBS)
    /\ pc' = "done"
    /\ UNCHANGED <<input_text, parsed_input, params, attempt, inflight, calls,
                   sleeps, response, job_results, log>>
    /\ UNCHANGED uiVars

Next ==
    \/ \E input \in ToolInputs : ToolCall(input)
    \/ SendRequest
    \/ \E exc \in RequestsRaises : RequestRaises(exc)
    \/ \E status \in {200, 404, 500}, body \in Bodies :
          ResponseArrives(status, IF status >= 400 THEN ErrorBody ELSE body)
    \/ SleepDone
    \/ ReturnSentinel
    \/ FormatResults

Spec == Init /\ [][Next]_vars

-----------------------------------------------------------------------------
(* The parser alone, over every text of at most MaxFrags fragments *)

InitParse ==
    /\ pc = "parse"
    /\ input_text \in {Str(t) : t \in Texts(MaxFrags)}
    /\ parsed_input = <<>>
    /\ params = <<>>
    /\ attempt = 0
    /\ inflight = 0
    /\ calls = 0
    /\ sleeps = 0
    /\ response = NoResponse
    /\ job_results = <<>>
    /\ formatted_jobs = <<>>
    /\ tool_result = NoValue
    /\ log = <<>>
    /\ InitUI

\* parse_user_input(user_input), lines 73-92
ParseCall ==
    /\ pc = "parse"
    /\ parsed_input' = parse_user_input(input_text.val)
    /\ log' = Append(log, Line("Parsed Query", parsed_input'))
    /\ pc' = "parsed"
    /\ UNCHANGED <<input_text, params, attempt, inflight, calls, sleeps,
                   response, job_results, formatted_jobs, tool_result>>
    /\ UNCHANGED uiVars

NextParse == ParseCall

SpecParse == InitParse /\ [][NextParse]_vars

-----------------------------------------------------------------------------
(* The Streamlit page of faja.py: one script run per user action *)

Queries == {<<>>, REMOTE, Cat(<<FOR_A, DEV>>)}

ANSWER == <<"H","e","r","e">>

\* what parent_agent.invoke may hand back: the agent is an opaque function
AgentResponses(q) ==
    { Dict([input |-> q, output |-> ANSWER]),
      Dict([results |-> <<Job("Acme", TRUE)>>]),
      Dict([results |-> <<>>]),
      Str(ANSWER),
      NoValue }

\* lines 73-89: which branch writes the response
show(resp) ==
    IF isinstance(resp, "dict") /\ "results" \in DOMAIN resp.val
    THEN IF resp.val.results # <<>> THEN "listings" ELSE "no jobs"
    ELSE IF isinstance(resp, "str") THEN "response"
    ELSE "no valid response"

Entry(role, content) == [role |-> role, content |-> content]

\* the log replaced by the last exchange
replace_turn(conv, q, resp) ==
    <<Entry("user", Str(q)), Entry("assistant", resp)>>

\* lines 92-93
append_turn(conv, q, resp) ==
    Append(Append(conv, Entry("user", Str(q))), Entry("assistant", resp))

\* the text area is edited: the script runs with the button not pressed
EditText(q) ==
    /\ user_input' = q
    /\ screen' = [out |-> "none"]
    /\ UNCHANGED conversation
    /\ UNCHANGED toolVars

\* "Search Jobs" is pressed: lines 65-93
PressSearch ==
    /\ IF user_input = <<>>
       THEN /\ screen' = [out |-> "warning"]
            /\ UNCHANGED conversation
       ELSE /\ Len(conversation) < 2 * MaxPresses
            /\ \E resp \in AgentResponses(user_input) :
                 /\ screen' = [out |-> show(resp), response |-> resp]
                 /\ conversation' = append_turn(conversation, user_input, resp)
    /\ UNCHANGED user_input
    /\ UNCHANGED toolVars

NextUI ==
    \/ \E q \in Queries : EditText(q)
    \/ PressSearch

SpecUI == Init /\ [][NextUI]_vars

-----------------------------------------------------------------------------
(* Properties *)

Failures ==
    Cardinality({i \in DOMAIN log : log[i].msg = "Findwork API request failed"})

Returned == pc \in {"return", "done"}

AllAttemptsFailed == Returned /\ Failures = calls

\* C1: when every attempt of search_jobs fails, exactly 3 requests are made
\* and the sentinel error value is returned; there is never a 4th request and
\* the failure never leaves search_jobs as an exception.
C1_ThreeAttemptsThenSentinel ==
    /\ calls <= 3
    /\ pc # "raised"
    /\ AllAttemptsFailed => (calls = 3 /\ job_results = Sentinel)

C1_Witness ==
    /\ pc = "return"
    /\ Failures = 3
    /\ calls = 3
    /\ job_results = Sentinel

\* C2: when every attempt fails, the backoff is applied exactly twice before
\* the sentinel is returned.
C2_BackoffTwice == AllAttemptsFailed => sleeps = 2

\* C3: every invocation of search_jobs_tool, on a text or on a mapping, and
\* for every outcome of the listing client, goes on until it returns a text;
\* no exception leaves it.
C3_AlwaysRenderedText ==
    /\ pc # "raised"
    /\ pc \notin {"idle", "done"} => ENABLED Next
    /\ pc = "done" =>
         /\ isinstance(tool_result, "str")
         /\ \A i \in DOMAIN tool_result.val : tool_result.val[i] \in STRING

C3_Witness ==
    /\ pc = "done"
    /\ isinstance(input_text, "dict")
    /\ job_results = Sentinel
    /\ isinstance(tool_result, "str")

\* C4: the parameters of every request sent have page >= 1 and sort_by in
\* {date, relevance}.
C4_ParamsValid ==
    pc = "waiting" => (params.page >= 1 /\ params.sort_by \in {"date", "relevance"})

ContainsRemoteAnyCase(s) ==
    \E i \in 1..Len(s) :
        /\ i + 5 <= Len(s)
        /\ \A k \in 1..6 : LowerChar(s[i + k - 1]) = REMOTE[k]

\* C5: for every text that contains "remote" in any letter case the parser's
\* search field is the literal "remote", also when "for a <word>" matches.
C5_RemoteOverridesRole ==
    (pc = "parsed" /\ ContainsRemoteAnyCase(input_text.val))
        => parsed_input.search = REMOTE

C5_Witness ==
    /\ pc = "parsed"
    /\ ContainsRemoteAnyCase(input_text.val)
    /\ SearchWordAfter(FOR_A, input_text.val).matched
    /\ SearchWordAfter(FOR_A, input_text.val).group # REMOTE
    /\ parsed_input.search = REMOTE

Separators(text) == Cardinality({i \in DOMAIN text : text[i] = "\n\n"})

\* C6: for a response with n > 0 results the formatter renders exactly
\* min(n, 5) blocks, the first min(n, 5) entries in the order of the response.
C6_FirstFiveInOrder ==
    (pc = "done" /\ "results" \in DOMAIN job_results /\ Len(job_results.results) > 0)
        => LET rs == job_results.results
               m == IF Len(rs) < 5 THEN Len(rs) ELSE 5
           IN  /\ Len(formatted_jobs) = m
               /\ \A i \in 1..m :
                    /\ formatted_jobs[i][2] = rs[i].company_name
                    /\ formatted_jobs[i][10] = (IF rs[i].remote THEN "Yes" ELSE "No")
               /\ Separators(tool_result.val) = m - 1
               /\ Len(tool_result.val) = 17 * m + (m - 1)

C6_Witness ==
    /\ pc = "done"
    /\ "results" \in DOMAIN job_results
    /\ Len(job_results.results) = 6
    /\ job_results.results[1] # job_results.results[2]
    /\ job_results.results[5] # job_results.results[6]
    /\ Len(formatted_jobs) = 5

\* C7: whenever the response has no results key (the sentinel included) or an
\* empty results array, search_jobs_tool returns the one fixed no-jobs
\* message; the empty text parses to the default parameters.
C7_FixedNoJobsMessage ==
    /\ (pc = "done" /\ "results" \notin DOMAIN job_results)
          => tool_result = Str(NO_JOBS)
    /\ (pc = "done" /\ "results" \in DOMAIN job_results /\ Len(job_results.results) = 0)
          => tool_result = Str(NO_JOBS)
    /\ (pc # "idle" /\ input_text = Str(<<>>))
          => parsed_input = [search |-> <<>>, location |-> None,
                             sort_by |-> "date", page |-> 1]

C7_Witness ==
    /\ pc = "done"
    /\ input_text = Str(<<>>)
    /\ job_results = [results |-> <<>>]
    /\ tool_result = Str(NO_JOBS)

ParserLines ==
    Cardinality({i \in DOMAIN log : log[i].msg = "Parsed Query"})

\* C8: a string input goes through parse_user_input and the parser's result is
\* what search_jobs is called with; a mapping input never goes through the
\* parser and is handed to search_jobs unchanged.
C8_DispatchByType ==
    pc # "idle" =>
        IF input_text.type = "str"
        THEN /\ parsed_input = parse_user_input(input_text.val)
             /\ ParserLines = 1
             /\ params = parsed_input
        ELSE /\ parsed_input = input_text.val
             /\ ParserLines = 0
             /\ \A k \in DOMAIN input_text.val : params[k] = input_text.val[k]

C8_Witness ==
    /\ pc = "waiting"
    /\ input_text.type = "dict"
    /\ DOMAIN input_text.val = {"page"}
    /\ parsed_input = input_text.val
    /\ params.page = input_text.val.page

IsPrefix(s, t) == Len(s) <= Len(t) /\ SubSeq(t, 1, Len(s)) = s

Pressed(out) == out \in {"listings", "no jobs", "response", "no valid response"}

C10_SequentialAttempts ==
    /\ [](inflight \in {0, 1})
    /\ []((Returned /\ job_results # Sentinel) =>
             /\ response.status \in 200..299
             /\ job_results = response.json
             /\ Failures = calls - 1
             /\ sleeps = calls - 1)
    /\ [][ /\ calls' # calls =>
                /\ calls' = calls + 1
                /\ inflight = 0 /\ inflight' = 1
                /\ pc = "loop"
                /\ Failures = calls
                /\ sleeps = calls
           /\ Returned => (calls' = calls /\ sleeps' = sleeps /\ inflight' = 0)
         ]_vars

C10_Witness ==
    /\ pc = "done"
    /\ calls = 2
    /\ sleeps = 1
    /\ response.status = 200
    /\ job_results = response.json
    /\ inflight = 0

=============================================================================
